---- MODULE Spec2Model ----
(***************************************************************************)
(* Score-rule evaluation and recomputation engine of LoRa-CP               *)
(* (app/resources/scores.py, score_rules.py, checkins.py, ingest.py).      *)
(*                                                                         *)
(* The relational store is modelled by its rows.  The rows of checkins and *)
(* of score_entries are kept per (team, checkpoint) in insertion order, so *)
(* a row id is (team, checkpoint, position); ids of different pairs are    *)
(* never compared by the code.  rules is the score_rules table keyed by    *)
(* its unique scope.  A Submit request is a process that walks through the *)
(* handler from commit to commit, so that two requests can interleave      *)
(* exactly where two database transactions can.                            *)
(***************************************************************************)
EXTENDS Integers, Sequences, FiniteSets, TLC

(***************************************************************************)
(* Bounds of the model.                                                    *)
(***************************************************************************)
MaxTime == 1

(***************************************************************************)
(* The fixed world: teams, checkpoints, groups, request workers.           *)
(***************************************************************************)
Teams == {1, 2, 3}
StartCP == 1
EndCP == 2
Checkpoints == {StartCP, EndCP}
Groups == {1, 2}
Procs == {1, 2}
Times == 0..MaxTime
Pairs == Teams \X Checkpoints

(***************************************************************************)
(* Python values: a float, None, or a string of the JSON payload.          *)
(***************************************************************************)
None == [has |-> FALSE, v |-> 0]
Num(n) == [has |-> TRUE, v |-> n]
Str(s) == [has |-> FALSE, v |-> 0, str |-> s]

\* float(s) on the strings used below; any other string raises.
ParseFloat(s) ==
    CASE s = "9" -> Num(9)
      [] s = "7" -> Num(7)
      [] OTHER -> None

\* _to_number: None and "" give None, a float stays, a string is parsed.
to_number(value) ==
    IF value.has THEN value
    ELSE IF "str" \in DOMAIN value THEN ParseFloat(value.str)
    ELSE None

\* Python's `x or d` on an optional float: None and 0.0 are both falsy.
OrDefault(value, d) == IF value.has /\ value.v # 0 THEN value.v ELSE d

EmptyMap == [k \in {} |-> None]

(***************************************************************************)
(* Field Rule Evaluator.                                                   *)
(***************************************************************************)
\* str(value), the key of a mapping rule.
PyStr(value) ==
    IF "str" \in DOMAIN value THEN value.str
    ELSE IF ~value.has THEN "None"
    ELSE CASE value.v = 2 -> "2"
           [] value.v = 4 -> "4"
           [] OTHER -> "n"

\* sorted(pts, key=lambda p: p[0]) on a list of control points.
RECURSIVE SortPoints(_)
SortPoints(pts) ==
    IF pts = <<>> THEN <<>>
    ELSE LET i == CHOOSE j \in 1..Len(pts) :
                      /\ \A k \in 1..Len(pts) : pts[j][1] <= pts[k][1]
                      /\ \A k \in 1..(j - 1) : pts[k][1] # pts[j][1]
         IN <<pts[i]>> \o SortPoints(SubSeq(pts, 1, i - 1) \o SubSeq(pts, i + 1, Len(pts)))

\* for (x1, y1), (x2, y2) in zip(pts, pts[1:]): the first segment holding x.
RECURSIVE Interpolate(_, _)
Interpolate(pts, x) ==
    IF Len(pts) < 2 THEN None
    ELSE LET x1 == pts[1][1]
             y1 == pts[1][2]
             x2 == pts[2][1]
             y2 == pts[2][2]
         IN IF x1 <= x /\ x <= x2
            THEN IF x2 = x1 THEN Num(y1)
                 ELSE Num(y1 + ((x - x1) * (y2 - y1)) \div (x2 - x1))
            ELSE Interpolate(Tail(pts), x)

\* The rule types in the order the code tests them ("found" rules and chained
\* rules are not among the rules used below).
apply_field_rule(value, rule) ==
    IF rule.type = "mapping"
    THEN IF PyStr(value) \in DOMAIN rule.map THEN to_number(rule.map[PyStr(value)]) ELSE None
    ELSE IF rule.type = "interpolate"
    THEN LET pts == SortPoints(rule.points)
             x == to_number(value)
         IN IF ~x.has \/ pts = <<>> THEN None
            ELSE IF x.v <= pts[1][1] THEN Num(pts[1][2])
            ELSE IF x.v >= pts[Len(pts)][1] THEN Num(pts[Len(pts)][2])
            ELSE Interpolate(pts, x.v)
    ELSE IF rule.type = "multiplier"
    THEN LET factor == to_number(rule.factor)
             base == to_number(value)
         IN IF ~factor.has \/ ~base.has THEN None ELSE Num(base.v * factor.v)
    ELSE IF value = None \/ value = Str("")
    THEN None
    ELSE IF rule.type = "deviation"
    THEN LET base == to_number(value)
             target == to_number(rule.target)
             max_points == to_number(rule.max_points)
             penalty_points == to_number(rule.penalty_points)
             penalty_distance == to_number(rule.penalty_distance)
             min_points == to_number(rule.min_points)
         IN IF \/ ~base.has \/ ~target.has \/ ~max_points.has \/ ~penalty_points.has
               \/ ~penalty_distance.has \/ penalty_distance.v = 0
            THEN None
            ELSE LET distance == IF base.v >= target.v THEN base.v - target.v
                                 ELSE target.v - base.v
                     penalty == (distance * penalty_points.v) \div penalty_distance.v
                     points == max_points.v - penalty
                 IN IF min_points.has /\ points < min_points.v THEN min_points
                    ELSE Num(points)
    ELSE to_number(value)

(***************************************************************************)
(* Score rules.  A rule row holds the JSON object `rules`; has_field_rules *)
(* is the truthiness of rule.get("field_rules"), total_fields the list     *)
(* (empty when absent), time_race the block (set = FALSE when absent).     *)
(***************************************************************************)
NoTimeRace == [set |-> FALSE, start_checkpoint_id |-> 0, end_checkpoint_id |-> 0,
               min_points |-> None, max_points |-> None]
NoRule == [present |-> FALSE, field_rules |-> EmptyMap, total_fields |-> <<>>,
           time_race |-> NoTimeRace]

RECURSIVE KeyList(_)
KeyList(S) ==
    IF S = {} THEN <<>>
    ELSE LET k == CHOOSE x \in S : TRUE IN <<k>> \o KeyList(S \ {k})

\* Faulty variant: a key whose value is None ends the sum with nothing.
RECURSIVE SumComputedAborting(_, _)
SumComputedAborting(computed, keys) ==
    IF keys = <<>> THEN [used |-> FALSE, total |-> 0]
    ELSE LET k == Head(keys)
             val == IF k \in DOMAIN computed THEN computed[k] ELSE None
         IN IF ~val.has THEN [used |-> FALSE, total |-> 0]
            ELSE [used |-> TRUE, total |-> SumComputedAborting(computed, Tail(keys)).total + val.v]

\* The loop `for key in total_fields: val = computed.get(key) ...`
RECURSIVE SumComputed(_, _)
SumComputed(computed, keys) ==
    IF keys = <<>> THEN [used |-> FALSE, total |-> 0]
    ELSE LET rest == SumComputed(computed, Tail(keys))
             k == Head(keys)
             val == IF k \in DOMAIN computed THEN computed[k] ELSE None
         IN IF val.has THEN [used |-> TRUE, total |-> rest.total + val.v]
            ELSE rest

FilterKeys(keys, excluded) == SelectSeq(keys, LAMBDA k : k \notin excluded)

(***************************************************************************)
(* Total Calculator.                                                       *)
(***************************************************************************)
\* Faulty variant: the explicit score is not given precedence, every numeric
\* field is summed after its field rule.
compute_total_sum_only(values, points_header, rule) ==
    LET computed == [key \in DOMAIN values |->
                        IF rule.present /\ key \in DOMAIN rule.field_rules
                        THEN apply_field_rule(values[key], rule.field_rules[key])
                        ELSE to_number(values[key])]
        acc == SumComputed(computed, KeyList(DOMAIN computed))
    IN IF acc.used THEN Num(acc.total) ELSE None

compute_total(values, points_header, rule) ==
    LET rule_total ==
            IF rule.present /\ DOMAIN rule.field_rules # {}
            THEN LET computed == [key \in DOMAIN values |->
                                     IF key \in DOMAIN rule.field_rules
                                     THEN apply_field_rule(values[key], rule.field_rules[key])
                                     ELSE to_number(values[key])]
                     listed == IF rule.total_fields # <<>> THEN rule.total_fields
                               ELSE KeyList(DOMAIN computed)
                     total_fields == FilterKeys(listed, {"dead_time"})
                     acc == SumComputed(computed, total_fields)
                 IN IF acc.used THEN Num(acc.total) ELSE None
            ELSE None
        with_header ==
            IF points_header # "" /\ points_header \in DOMAIN values
            THEN to_number(values[points_header]) ELSE rule_total
        with_points ==
            IF "points" \in DOMAIN values
            THEN to_number(values["points"]) ELSE with_header
        fallback ==
            LET nums == [key \in DOMAIN values |-> to_number(values[key])]
                acc == SumComputed(nums, FilterKeys(KeyList(DOMAIN values), {"time", "dead_time"}))
            IN IF acc.used THEN Num(acc.total) ELSE None
    IN IF with_points.has THEN with_points ELSE fallback

(***************************************************************************)
(* Relative Race Normalizer.  cks is the checkins table; the query takes   *)
(* min(timestamp) per team at the start and at the end checkpoint.         *)
(* Points and durations are integers; the rules and clock values used      *)
(* below keep every quotient exact.                                        *)
(***************************************************************************)
SetMin(S) == CHOOSE m \in S : \A x \in S : m <= x
SetMax(S) == CHOOSE m \in S : \A x \in S : m >= x

CheckinTimes(cks, team_id, checkpoint_id) ==
    {cks[<<team_id, checkpoint_id>>][i] : i \in DOMAIN cks[<<team_id, checkpoint_id>>]}

Durations(cks, team_ids, start_checkpoint_id, end_checkpoint_id) ==
    LET has_both(t) == /\ CheckinTimes(cks, t, start_checkpoint_id) # {}
                       /\ CheckinTimes(cks, t, end_checkpoint_id) # {}
        dur(t) == SetMin(CheckinTimes(cks, t, end_checkpoint_id))
                    - SetMin(CheckinTimes(cks, t, start_checkpoint_id))
        included == {t \in team_ids : has_both(t) /\ dur(t) >= 0}
    IN [t \in included |-> dur(t)]

\* Faulty variant: without the branch for equal durations and with the
\* interpolation running from min_points up.
compute_time_race_scores_reversed(cks, team_ids, start_checkpoint_id, end_checkpoint_id, min_points, max_points) ==
    LET durations == Durations(cks, team_ids, start_checkpoint_id, end_checkpoint_id)
        ds == {durations[t] : t \in DOMAIN durations}
        min_d == SetMin(ds)
        max_d == SetMax(ds)
    IN IF DOMAIN durations = {} THEN [t \in {} |-> 0]
       ELSE IF max_d = min_d THEN [t \in DOMAIN durations |-> min_points]
       ELSE [t \in DOMAIN durations |->
                min_points + ((durations[t] - min_d) * (max_points - min_points))
                                 \div (max_d - min_d)]

compute_time_race_scores_from_checkins(cks, team_ids, start_checkpoint_id, end_checkpoint_id, min_points, max_points) ==
    LET durations == Durations(cks, team_ids, start_checkpoint_id, end_checkpoint_id)
        ds == {durations[t] : t \in DOMAIN durations}
        min_d == SetMin(ds)
        max_d == SetMax(ds)
    IN IF DOMAIN durations = {} THEN [t \in {} |-> 0]
       ELSE IF max_d = min_d THEN [t \in DOMAIN durations |-> max_points]
       ELSE [t \in DOMAIN durations |->
                max_points - ((durations[t] - min_d) * (max_points - min_points))
                                 \div (max_d - min_d)]

(***************************************************************************)
(* The store.                                                              *)
(***************************************************************************)
VARIABLES
    checkins,     \* checkins table: <<team, checkpoint>> -> timestamps of its rows
    entries,      \* score_entries table: <<team, checkpoint>> -> its rows
                  \*   [checkin_id, raw_fields, total, created_at], oldest first
    rules,        \* score_rules table: <<checkpoint, group>> -> the rules objects
                  \*   of its rows for that scope, oldest first
    team_groups,  \* team_groups table: set of [team_id, group_id, active]
    now,          \* datetime.utcnow()
    sub,          \* the request each worker is serving
    global_rules, \* global_score_rules table: group -> the rules objects of its rows
    notifier,     \* "up" or "down": whether a call of the sheet notifier raises
    resp          \* the last response returned by a rule save or a read

vars == <<checkins, entries, rules, team_groups, now, sub, global_rules, notifier, resp>>

\* SheetConfig points_header of the checkpoint tabs.
points_header == "score"

get_active_group(tg, team_id) ==
    {row.group_id : row \in {r \in tg : r.team_id = team_id /\ r.active}}

\* ScoreRule.query.filter(...).first(); rule.rules if rule else None
get_score_rule(rs, checkpoint_id, group_id) ==
    IF rs[<<checkpoint_id, group_id>>] = <<>> THEN NoRule
    ELSE rs[<<checkpoint_id, group_id>>][1]

\* Faulty variant: the table has no unique constraint.
UniqueTeamCheckpointAbsent(cks, team_id, checkpoint_id) == TRUE

\* uq_team_checkpoint: the insert of a second row for the pair is refused.
UniqueTeamCheckpoint(cks, team_id, checkpoint_id) ==
    cks[<<team_id, checkpoint_id>>] = <<>>

EntryCount(es) == Cardinality(UNION {{<<pr, k>> : k \in DOMAIN es[pr]} : pr \in Pairs})

(***************************************************************************)
(* "Latest entry per team" of a (checkpoint, group) cohort: the join with  *)
(* the active TeamGroup rows, ORDER BY created_at DESC, first row per      *)
(* team.  Rows with equal created_at come in an order the database does    *)
(* not fix, so every row with the greatest created_at may be the first.    *)
(***************************************************************************)
NewestEntries(es, team_id, checkpoint_id) ==
    LET rows == es[<<team_id, checkpoint_id>>]
    IN {k \in DOMAIN rows : \A j \in DOMAIN rows : rows[j].created_at <= rows[k].created_at}

CohortTeams(es, tg, checkpoint_id, group_id) ==
    {t \in Teams : /\ \E r \in tg : r.team_id = t /\ r.group_id = group_id /\ r.active
                   /\ es[<<t, checkpoint_id>>] # <<>>}

LatestByTeam(es, tg, checkpoint_id, group_id) ==
    {f \in [CohortTeams(es, tg, checkpoint_id, group_id) -> UNION {DOMAIN es[pr] : pr \in Pairs}] :
        \A t \in DOMAIN f : f[t] \in NewestEntries(es, t, checkpoint_id)}

HasTimeRace(rule) ==
    /\ rule.present /\ rule.time_race.set
    /\ rule.time_race.start_checkpoint_id # 0
    /\ rule.time_race.end_checkpoint_id # 0

(***************************************************************************)
(* The two recomputations of a cohort.  latest maps each cohort team to    *)
(* the position of its latest entry; the result maps a team to the total   *)
(* assigned to that entry.                                                 *)
(***************************************************************************)
\* Faulty variant: only entries without a total are scored, the totals of
\* the other cohort entries are left as stored.
submit_race_totals_new_only(cks, es, checkpoint_id, latest, rule, total) ==
    LET tr == rule.time_race
        scores == compute_time_race_scores_from_checkins(cks, DOMAIN latest,
                      tr.start_checkpoint_id, tr.end_checkpoint_id,
                      OrDefault(to_number(tr.min_points), 0),
                      OrDefault(to_number(tr.max_points), IF total.has THEN total.v ELSE 0))
    IN [t \in DOMAIN latest |->
           LET e == es[<<t, checkpoint_id>>][latest[t]]
           IN [id |-> latest[t],
               total |-> IF e.total.has THEN e.total
                         ELSE IF t \in DOMAIN scores THEN Num(scores[t])
                         ELSE None]]

\* ScoreSubmit.post, the time_race block after the insert of the entry.
submit_race_totals(cks, es, checkpoint_id, latest, rule, total) ==
    LET tr == rule.time_race
        min_points == OrDefault(to_number(tr.min_points), 0)
        max_points == OrDefault(to_number(tr.max_points), IF total.has THEN total.v ELSE 0)
        scores == compute_time_race_scores_from_checkins(cks, DOMAIN latest,
                      tr.start_checkpoint_id, tr.end_checkpoint_id, min_points, max_points)
    IN [t \in DOMAIN latest |->
           LET e == es[<<t, checkpoint_id>>][latest[t]]
               base_total == compute_total(e.raw_fields, points_header, rule)
           IN [id |-> latest[t],
               total |-> IF t \in DOMAIN scores
                         THEN Num(OrDefault(base_total, 0) + scores[t])
                         ELSE base_total]]

\* Faulty variant: under a rule without time_race only the entries without a
\* total are computed.
rule_recompute_totals_missing_only(cks, es, checkpoint_id, latest, rule) ==
    IF HasTimeRace(rule)
    THEN LET tr == rule.time_race
             scores == compute_time_race_scores_from_checkins(cks, DOMAIN latest,
                           tr.start_checkpoint_id, tr.end_checkpoint_id,
                           OrDefault(to_number(tr.min_points), 0),
                           OrDefault(to_number(tr.max_points), 0))
         IN [t \in DOMAIN scores |-> [id |-> latest[t], total |-> Num(scores[t])]]
    ELSE [t \in {u \in DOMAIN latest : ~es[<<u, checkpoint_id>>][latest[u]].total.has} |->
             [id |-> latest[t],
              total |-> compute_total(es[<<t, checkpoint_id>>][latest[t]].raw_fields, "", rule)]]

\* recompute_scores_for_rule, after the selection of the latest entries.
rule_recompute_totals(cks, es, checkpoint_id, latest, rule) ==
    IF HasTimeRace(rule)
    THEN LET tr == rule.time_race
             min_points == OrDefault(to_number(tr.min_points), 0)
             max_points == OrDefault(to_number(tr.max_points), 0)
             scores == compute_time_race_scores_from_checkins(cks, DOMAIN latest,
                           tr.start_checkpoint_id, tr.end_checkpoint_id, min_points, max_points)
         IN [t \in DOMAIN scores |-> [id |-> latest[t], total |-> Num(scores[t])]]
    ELSE [t \in DOMAIN latest |->
             [id |-> latest[t],
              total |-> compute_total(es[<<t, checkpoint_id>>][latest[t]].raw_fields, "", rule)]]

\* Faulty variant: a commit after every assignment, and the run stops after
\* the first team.
ApplyTotalsFirstOnly(es, checkpoint_id, totals) ==
    [pr \in Pairs |->
        IF pr[2] = checkpoint_id /\ pr[1] \in DOMAIN totals
              /\ \A u \in DOMAIN totals : pr[1] <= u
        THEN [es[pr] EXCEPT ![totals[pr[1]].id].total = totals[pr[1]].total]
        ELSE es[pr]]

\* entry.total = ... ; db.session.commit()
ApplyTotals(es, checkpoint_id, totals) ==
    [pr \in Pairs |->
        IF pr[2] = checkpoint_id /\ pr[1] \in DOMAIN totals
        THEN [es[pr] EXCEPT ![totals[pr[1]].id].total = totals[pr[1]].total]
        ELSE es[pr]]

\* The session flushes an UPDATE only for the attributes whose value differs
\* from the one it loaded.
Dirty(es, checkpoint_id, totals) ==
    [t \in {u \in DOMAIN totals :
               totals[u].total # es[<<u, checkpoint_id>>][totals[u].id].total} |-> totals[t]]

(***************************************************************************)
(* Inputs.                                                                 *)
(***************************************************************************)
RawChoices ==
    { EmptyMap,
      [k \in {"x"} |-> Num(2)],
      [k \in {"x", "points"} |-> IF k = "x" THEN Num(2) ELSE Str("9")],
      [k \in {"x", "score"} |-> IF k = "x" THEN Num(2) ELSE Num(7)] }

RaceRule ==
    [present |-> TRUE, field_rules |-> EmptyMap, total_fields |-> <<>>,
     time_race |-> [set |-> TRUE, start_checkpoint_id |-> StartCP,
                    end_checkpoint_id |-> EndCP,
                    min_points |-> Num(0), max_points |-> Num(12)]]

FieldRule ==
    [present |-> TRUE,
     field_rules |-> [k \in {"x"} |-> [type |-> "multiplier", factor |-> Num(3)]],
     total_fields |-> <<>>, time_race |-> NoTimeRace]

RuleChoices == {RaceRule, FieldRule}

(***************************************************************************)
(* Checkpoint groups and global rules.  checkpoint_group_links is a table  *)
(* no operation below changes: group 1 holds both checkpoints, group 2     *)
(* the start only.  A global rule row holds the JSON object `rules`; an    *)
(* absent block has None parameters.  The clock counts minutes.            *)
(***************************************************************************)
group_checkpoints == [g \in Groups |-> IF g = 1 THEN {StartCP, EndCP} ELSE {StartCP}]

NoFound == [points_per |-> None, exclude_start_checkpoint |-> FALSE,
            exclude_end_checkpoint |-> FALSE]
NoGlobalTime == [start_checkpoint_id |-> 0, end_checkpoint_id |-> 0,
                 max_points |-> None, threshold_minutes |-> None,
                 penalty_minutes |-> None, penalty_points |-> None,
                 min_points |-> None]
NoGlobalRule == [present |-> FALSE, found |-> NoFound, time |-> NoGlobalTime]

GlobalFoundRule ==
    [present |-> TRUE,
     found |-> [points_per |-> Num(5), exclude_start_checkpoint |-> FALSE,
                exclude_end_checkpoint |-> FALSE],
     time |-> NoGlobalTime]

GlobalTimeRule ==
    [present |-> TRUE,
     found |-> [points_per |-> Num(5), exclude_start_checkpoint |-> TRUE,
                exclude_end_checkpoint |-> FALSE],
     time |-> [start_checkpoint_id |-> StartCP, end_checkpoint_id |-> EndCP,
               max_points |-> Num(10), threshold_minutes |-> Num(0),
               penalty_minutes |-> Num(1), penalty_points |-> Num(4),
               min_points |-> Num(0)]]

GlobalRuleChoices == {GlobalFoundRule, GlobalTimeRule}

\* Faulty variant: the count has no filter on the team.
found_count_any_team(cks, team_id, checkpoint_ids) ==
    Cardinality({c \in checkpoint_ids : \E t \in Teams : cks[<<t, c>>] # <<>>})

\* Checkin.query.filter(team_id, checkpoint_id IN ...).distinct().count()
found_count(cks, team_id, checkpoint_ids) ==
    Cardinality({c \in checkpoint_ids : cks[<<team_id, c>>] # <<>>})

\* Faulty variant: the result is not floored at min_points.
threshold_points_unfloored(duration_minutes, threshold_minutes, penalty_minutes, penalty_points, max_points, min_points) ==
    IF duration_minutes <= threshold_minutes THEN max_points
    ELSE max_points - ((duration_minutes - threshold_minutes) * penalty_points) \div penalty_minutes

\* The time points of a team with both Checkins; the parameters used below
\* keep the quotient exact.
threshold_points(duration_minutes, threshold_minutes, penalty_minutes, penalty_points, max_points, min_points) ==
    LET over == IF duration_minutes - threshold_minutes > 0
                THEN duration_minutes - threshold_minutes ELSE 0
        time_points == IF duration_minutes <= threshold_minutes THEN max_points
                       ELSE max_points - (over * penalty_points) \div penalty_minutes
    IN IF time_points < min_points THEN min_points ELSE time_points

\* _compute_global_contrib: {"total", "found_points", "time_points"}.
compute_global_contrib(cks, team_id, group_id, global_rule) ==
    LET found_rule == global_rule.found
        time_rule == global_rule.time
        points_per == to_number(found_rule.points_per)
        excluded ==
            (IF found_rule.exclude_start_checkpoint /\ time_rule.start_checkpoint_id # 0
             THEN {time_rule.start_checkpoint_id} ELSE {})
            \cup
            (IF found_rule.exclude_end_checkpoint /\ time_rule.end_checkpoint_id # 0
             THEN {time_rule.end_checkpoint_id} ELSE {})
        checkpoint_ids == group_checkpoints[group_id] \ excluded
        found_used == points_per.has /\ checkpoint_ids # {}
        found == found_count(cks, team_id, checkpoint_ids)
        found_points == points_per.v * found
        start_cp == time_rule.start_checkpoint_id
        end_cp == time_rule.end_checkpoint_id
        max_points == to_number(time_rule.max_points)
        threshold_minutes == to_number(time_rule.threshold_minutes)
        penalty_minutes == to_number(time_rule.penalty_minutes)
        penalty_points == to_number(time_rule.penalty_points)
        min_points == OrDefault(to_number(time_rule.min_points), 0)
        time_used ==
            /\ start_cp # 0 /\ end_cp # 0
            /\ max_points.has /\ threshold_minutes.has
            /\ penalty_minutes.has /\ penalty_minutes.v # 0
            /\ penalty_points.has
            /\ CheckinTimes(cks, team_id, start_cp) # {}
            /\ CheckinTimes(cks, team_id, end_cp) # {}
        duration_minutes == SetMin(CheckinTimes(cks, team_id, end_cp))
                              - SetMin(CheckinTimes(cks, team_id, start_cp))
        time_points == threshold_points(duration_minutes, threshold_minutes.v,
                                        penalty_minutes.v, penalty_points.v,
                                        max_points.v, min_points)
    IN IF ~global_rule.present
       THEN [total |-> None, found_points |-> None, time_points |-> None]
       ELSE [total |-> IF found_used \/ time_used
                       THEN Num((IF found_used THEN found_points ELSE 0)
                                  + (IF time_used THEN time_points ELSE 0))
                       ELSE None,
             found_points |-> IF found_used THEN Num(found_points) ELSE None,
             time_points |-> IF time_used THEN Num(time_points) ELSE None]

\* No response yet; a response carries the operation, the HTTP outcome and
\* the value returned.
NoResp == [op |-> "none", ok |-> FALSE, value |-> None]

\* {"ok": True, "rule_id": ..., "updated": True}, 200 or
\* {"ok": True, "rule_id": ..., "created": True}, 201
save_response(rs, checkpoint_id, group_id) ==
    [op |-> "save_rule", ok |-> TRUE,
     value |-> [rule_id |-> IF rs[<<checkpoint_id, group_id>>] # <<>> THEN 1
                            ELSE Len(rs[<<checkpoint_id, group_id>>]) + 1,
                updated |-> rs[<<checkpoint_id, group_id>>] # <<>>]]

IdleSub ==
    [pc |-> "idle", team_id |-> 0, checkpoint_id |-> 0, fields |-> EmptyMap,
     group_id |-> 0, rule |-> NoRule, checkin_id |-> 0, created_checkin |-> FALSE,
     entry_id |-> 0, total |-> None, pending |-> EmptyMap]

\* The request ended with an error; the locals of the handler are gone.
FailedSub == [IdleSub EXCEPT !.pc = "failed"]

\* Submits admitted so far: rows inserted plus requests still before their insert.
Admitted == EntryCount(entries) + Cardinality({p \in Procs : sub[p].pc \in {"checkin", "entry"}})

Init ==
    /\ checkins = [pr \in Pairs |-> <<>>]
    /\ entries = [pr \in Pairs |-> <<>>]
    /\ rules = [k \in Checkpoints \X Groups |-> <<>>]
    /\ team_groups = {[team_id |-> 1, group_id |-> 1, active |-> TRUE],
                      [team_id |-> 2, group_id |-> 2, active |-> TRUE]}
    /\ now = 0
    /\ sub = [p \in Procs |-> IdleSub]
    /\ global_rules = [g \in Groups |-> <<>>]
    /\ notifier = "up"
    /\ resp = NoResp

(***************************************************************************)
(* Calls of the sheet notifier (mark_arrival_checkbox,                     *)
(* update_checkpoint_scores) stand in try/except blocks.  after_notify is  *)
(* what the handler does after a call that raised or not; Notified is the  *)
(* request after the call, given the request it continues as.              *)
(***************************************************************************)
\* Faulty variant: the exception of the notifier propagates.
after_notify_propagates(raised) == IF raised THEN "abort" ELSE "continue"

\* try: ... except Exception: pass
after_notify(raised) == "continue"

Notified(next_sub) ==
    IF after_notify(notifier = "down") = "abort" THEN FailedSub ELSE next_sub

(***************************************************************************)
(* ScoreSubmit.post, one action per transaction.  Locals the handler does  *)
(* not read again are dropped from the request record.                     *)
(***************************************************************************)
\* Faulty variant: a Checkin that is found gets the time of the Submit.
SubmitBeginTouch(p, team_id, checkpoint_id, fields) ==
    /\ sub[p].pc \in {"idle", "failed"}
    /\ get_active_group(team_groups, team_id) # {}
    /\ \E group_id \in get_active_group(team_groups, team_id) :
       \E seen \in (IF checkins[<<team_id, checkpoint_id>>] = <<>> THEN {0}
                    ELSE DOMAIN checkins[<<team_id, checkpoint_id>>]) :
          /\ sub' = [sub EXCEPT ![p] =
                    [IdleSub EXCEPT !.pc = IF seen = 0 THEN "checkin" ELSE "entry",
                                    !.team_id = team_id,
                                    !.checkpoint_id = checkpoint_id,
                                    !.fields = fields,
                                    !.group_id = group_id,
                                    !.rule = get_score_rule(rules, checkpoint_id, group_id),
                                    !.checkin_id = seen]]
          /\ checkins' = IF seen = 0 THEN checkins
                         ELSE [checkins EXCEPT ![<<team_id, checkpoint_id>>][seen] = now]
    /\ UNCHANGED <<entries, rules, team_groups, now, global_rules, notifier, resp>>

\* Validation and the reads up to the lookup of the Checkin.
SubmitBegin(p, team_id, checkpoint_id, fields) ==
    /\ sub[p].pc \in {"idle", "failed"}
    /\ get_active_group(team_groups, team_id) # {}
    /\ \E group_id \in get_active_group(team_groups, team_id) :
       \E seen \in (IF checkins[<<team_id, checkpoint_id>>] = <<>> THEN {0}
                    ELSE DOMAIN checkins[<<team_id, checkpoint_id>>]) :
          sub' = [sub EXCEPT ![p] =
                 [IdleSub EXCEPT !.pc = IF seen = 0 THEN "checkin" ELSE "entry",
                                 !.team_id = team_id,
                                 !.checkpoint_id = checkpoint_id,
                                 !.fields = fields,
                                 !.group_id = group_id,
                                 !.rule = get_score_rule(rules, checkpoint_id, group_id),
                                 !.checkin_id = seen]]
    /\ UNCHANGED <<checkins, entries, rules, team_groups, now, global_rules, notifier, resp>>

\* db.session.add(checkin); db.session.commit()
SubmitCheckin(p) ==
    /\ sub[p].pc = "checkin"
    /\ LET pr == <<sub[p].team_id, sub[p].checkpoint_id>>
       IN IF UniqueTeamCheckpoint(checkins, sub[p].team_id, sub[p].checkpoint_id)
          THEN /\ checkins' = [checkins EXCEPT ![pr] = Append(@, now)]
               /\ sub' = [sub EXCEPT ![p] =
                      Notified([sub[p] EXCEPT !.pc = "entry",
                                              !.checkin_id = Len(checkins[pr]) + 1,
                                              !.created_checkin = TRUE])]
          ELSE /\ sub' = [sub EXCEPT ![p] = FailedSub]
               /\ UNCHANGED checkins
    /\ UNCHANGED <<entries, rules, team_groups, now, global_rules, notifier, resp>>

\* Faulty variant: a team's earlier entry at the checkpoint is overwritten
\* by the new submission instead of a row being added.
SubmitEntryUpsert(p) ==
    /\ sub[p].pc = "entry"
    /\ LET pr == <<sub[p].team_id, sub[p].checkpoint_id>>
           total == compute_total(sub[p].fields, points_header, sub[p].rule)
           row == [checkin_id |-> sub[p].checkin_id, raw_fields |-> sub[p].fields,
                   total |-> total, created_at |-> now]
       IN /\ entries' = [entries EXCEPT ![pr] =
                            IF @ = <<>> THEN <<row>> ELSE [@ EXCEPT ![Len(@)] = row]]
          /\ sub' = [sub EXCEPT ![p] = Notified(
                 IF HasTimeRace(sub[p].rule)
                 THEN [sub[p] EXCEPT !.pc = "race", !.fields = EmptyMap,
                                     !.entry_id = Len(entries'[pr]), !.total = total]
                 ELSE IdleSub)]
    /\ UNCHANGED <<checkins, rules, team_groups, now, global_rules, notifier, resp>>

\* Faulty variant: the insert also stores its total in the entries of the
\* other teams at the checkpoint.
SubmitEntryShared(p) ==
    /\ sub[p].pc = "entry"
    /\ LET pr == <<sub[p].team_id, sub[p].checkpoint_id>>
           total == compute_total(sub[p].fields, points_header, sub[p].rule)
       IN /\ entries' = [q \in Pairs |->
                            IF q = pr
                            THEN Append(entries[q], [checkin_id |-> sub[p].checkin_id,
                                                     raw_fields |-> sub[p].fields,
                                                     total |-> total,
                                                     created_at |-> now])
                            ELSE IF q[2] = pr[2]
                            THEN [i \in DOMAIN entries[q] |-> [entries[q][i] EXCEPT !.total = total]]
                            ELSE entries[q]]
          /\ sub' = [sub EXCEPT ![p] = Notified(
                 IF HasTimeRace(sub[p].rule)
                 THEN [sub[p] EXCEPT !.pc = "race", !.fields = EmptyMap,
                                     !.entry_id = Len(entries[pr]) + 1, !.total = total]
                 ELSE IdleSub)]
    /\ UNCHANGED <<checkins, rules, team_groups, now, global_rules, notifier, resp>>

\* total = _compute_total(...); db.session.add(entry); db.session.commit()
SubmitEntry(p) ==
    /\ sub[p].pc = "entry"
    /\ LET pr == <<sub[p].team_id, sub[p].checkpoint_id>>
           total == compute_total(sub[p].fields, points_header, sub[p].rule)
       IN /\ entries' = [entries EXCEPT ![pr] =
                            Append(@, [checkin_id |-> sub[p].checkin_id,
                                       raw_fields |-> sub[p].fields,
                                       total |-> total,
                                       created_at |-> now])]
          /\ sub' = [sub EXCEPT ![p] = Notified(
                 IF HasTimeRace(sub[p].rule)
                 THEN [sub[p] EXCEPT !.pc = "race", !.fields = EmptyMap,
                                     !.entry_id = Len(entries[pr]) + 1, !.total = total]
                 ELSE IdleSub)]
    /\ UNCHANGED <<checkins, rules, team_groups, now, global_rules, notifier, resp>>

\* The cohort query, the normalizer and the assignments e.total = ...
SubmitRace(p) ==
    /\ sub[p].pc = "race"
    /\ \E latest \in LatestByTeam(entries, team_groups, sub[p].checkpoint_id, sub[p].group_id) :
          sub' = [sub EXCEPT ![p].pc = "write",
                             ![p].rule = NoRule,
                             ![p].total = None,
                             ![p].pending = Dirty(entries, sub[p].checkpoint_id,
                                 submit_race_totals(checkins, entries, sub[p].checkpoint_id,
                                                    latest, sub[p].rule, sub[p].total))]
    /\ UNCHANGED <<checkins, entries, rules, team_groups, now, global_rules, notifier, resp>>

\* db.session.commit() of the cohort totals
SubmitWrite(p) ==
    /\ sub[p].pc = "write"
    /\ entries' = ApplyTotals(entries, sub[p].checkpoint_id, sub[p].pending)
    /\ sub' = [sub EXCEPT ![p] = Notified(IdleSub)]
    /\ UNCHANGED <<checkins, rules, team_groups, now, global_rules, notifier, resp>>

\* A commit raises (connection lost, disk full): the request ends with an
\* error and the transactions committed before stay committed.
SubmitFail(p) ==
    /\ sub[p].pc \in {"checkin", "entry", "write"}
    /\ sub' = [sub EXCEPT ![p] = FailedSub]
    /\ UNCHANGED <<checkins, entries, rules, team_groups, now, global_rules, notifier, resp>>

(***************************************************************************)
(* ScoreSubmit.post, the requests it rejects.  Team 0 and checkpoint 0 are  *)
(* ids of no row; a judge is assigned to the finish checkpoint only, the   *)
(* administrator is no judge member.                                       *)
(***************************************************************************)
Users == {"admin", "judge"}
JudgeCheckpoints == {EndCP}

submit_validation(tg, team_id, checkpoint_id, user) ==
    IF team_id \notin Teams \/ checkpoint_id \notin Checkpoints THEN "invalid_request"
    ELSE IF user = "judge" /\ checkpoint_id \notin JudgeCheckpoints THEN "forbidden"
    ELSE IF get_active_group(tg, team_id) = {} THEN "no_active_group"
    ELSE "ok"

submit_error(tg, team_id, checkpoint_id, user) ==
    [op |-> "submit", ok |-> FALSE,
     value |-> [error |-> submit_validation(tg, team_id, checkpoint_id, user),
                team_id |-> team_id, checkpoint_id |-> checkpoint_id]]

\* Faulty variant: the Checkin is looked up and created before the checks of
\* the judge and of the active group.
SubmitRejectedAfterCheckin(team_id, checkpoint_id, user) ==
    /\ submit_validation(team_groups, team_id, checkpoint_id, user) # "ok"
    /\ resp' = submit_error(team_groups, team_id, checkpoint_id, user)
    /\ checkins' = IF /\ team_id \in Teams /\ checkpoint_id \in Checkpoints
                      /\ checkins[<<team_id, checkpoint_id>>] = <<>>
                   THEN [checkins EXCEPT ![<<team_id, checkpoint_id>>] = <<now>>]
                   ELSE checkins
    /\ UNCHANGED <<entries, rules, team_groups, now, sub, global_rules, notifier>>

\* Every return before the lookup of the Checkin: nothing was added to the
\* session and nothing is committed.
SubmitRejected(team_id, checkpoint_id, user) ==
    /\ submit_validation(team_groups, team_id, checkpoint_id, user) # "ok"
    /\ resp' = submit_error(team_groups, team_id, checkpoint_id, user)
    /\ UNCHANGED <<checkins, entries, rules, team_groups, now, sub, global_rules, notifier>>

(***************************************************************************)
(* ScoreRuleList.post / score_rules: save the rule, then recompute.        *)
(***************************************************************************)
\* Under a time_race rule the notifier is called after the commit of the
\* totals, otherwise inside the loop that assigns them, before the commit.
recompute_scores_for_rule(cks, es, rs, checkpoint_id, group_id, latest) ==
    LET rule == get_score_rule(rs, checkpoint_id, group_id)
    IN IF ~HasTimeRace(rule) /\ DOMAIN latest # {}
          /\ after_notify(notifier = "down") = "abort"
       THEN es
       ELSE ApplyTotals(es, checkpoint_id,
                        rule_recompute_totals(cks, es, checkpoint_id, latest, rule))

\* existing = ScoreRule.query...first(): the row is overwritten in place,
\* or a row is inserted for a scope that has none.
\* Faulty variant: every save adds a row.
save_rule_row_append(rs, checkpoint_id, group_id, rule) ==
    [rs EXCEPT ![<<checkpoint_id, group_id>>] = Append(@, rule)]

save_rule_row(rs, checkpoint_id, group_id, rule) ==
    IF rs[<<checkpoint_id, group_id>>] # <<>>
    THEN [rs EXCEPT ![<<checkpoint_id, group_id>>][1] = rule]
    ELSE [rs EXCEPT ![<<checkpoint_id, group_id>>] = Append(@, rule)]

SaveRule(checkpoint_id, group_id, rule) ==
    /\ rules' = save_rule_row(rules, checkpoint_id, group_id, rule)
    /\ \E latest \in LatestByTeam(entries, team_groups, checkpoint_id, group_id) :
          entries' = recompute_scores_for_rule(checkins, entries, rules',
                                               checkpoint_id, group_id, latest)
    /\ resp' = save_response(rules, checkpoint_id, group_id)
    /\ UNCHANGED <<checkins, team_groups, now, sub, global_rules, notifier>>

\* The handler when the recomputation raises (a query or the commit of the
\* totals fails): the rule is committed already, the caller's `except
\* Exception: pass` discards the error, the session is rolled back at the
\* end of the request and the response is the one of a successful save.
SaveRuleFailed(checkpoint_id, group_id, rule) ==
    /\ rules' = save_rule_row(rules, checkpoint_id, group_id, rule)
    /\ resp' = save_response(rules, checkpoint_id, group_id)
    /\ UNCHANGED <<checkins, entries, team_groups, now, sub, global_rules, notifier>>

\* save_global_rules: record.rules = rules on the row found, else a new row.
save_global_rule_row(grs, group_id, rule) ==
    IF grs[group_id] # <<>>
    THEN [grs EXCEPT ![group_id][1] = rule]
    ELSE [grs EXCEPT ![group_id] = Append(@, rule)]

SaveGlobalRule(group_id, rule) ==
    /\ global_rules' = save_global_rule_row(global_rules, group_id, rule)
    /\ resp' = [op |-> "save_global_rule", ok |-> TRUE,
                value |-> [updated |-> global_rules[group_id] # <<>>]]
    /\ UNCHANGED <<checkins, entries, rules, team_groups, now, sub, notifier>>

(***************************************************************************)
(* ScoreRuleItem.delete / delete_score_rule: the row is deleted and the    *)
(* deletion committed; a rule id of no row is answered with not_found.     *)
(***************************************************************************)
delete_rule_row(rs, checkpoint_id, group_id) ==
    [rs EXCEPT ![<<checkpoint_id, group_id>>] = Tail(@)]

\* Faulty variant: the deletion is followed by the recomputation of the cohort.
DeleteRuleRecomputing(checkpoint_id, group_id) ==
    /\ rules[<<checkpoint_id, group_id>>] # <<>>
    /\ rules' = delete_rule_row(rules, checkpoint_id, group_id)
    /\ \E latest \in LatestByTeam(entries, team_groups, checkpoint_id, group_id) :
          entries' = recompute_scores_for_rule(checkins, entries, rules',
                                               checkpoint_id, group_id, latest)
    /\ resp' = [op |-> "delete_rule", ok |-> TRUE,
                value |-> [checkpoint_id |-> checkpoint_id, group_id |-> group_id]]
    /\ UNCHANGED <<checkins, team_groups, now, sub, global_rules, notifier>>

DeleteRule(checkpoint_id, group_id) ==
    IF rules[<<checkpoint_id, group_id>>] = <<>>
    THEN /\ resp' = [op |-> "delete_rule", ok |-> FALSE,
                     value |-> [checkpoint_id |-> checkpoint_id, group_id |-> group_id]]
         /\ UNCHANGED <<checkins, entries, rules, team_groups, now, sub, global_rules, notifier>>
    ELSE /\ rules' = delete_rule_row(rules, checkpoint_id, group_id)
         /\ resp' = [op |-> "delete_rule", ok |-> TRUE,
                     value |-> [checkpoint_id |-> checkpoint_id, group_id |-> group_id]]
         /\ UNCHANGED <<checkins, entries, team_groups, now, sub, global_rules, notifier>>

(***************************************************************************)
(* ScoreResolve.post.  `existing` is the first row of ORDER BY created_at  *)
(* DESC: any of the rows with the greatest created_at.                     *)
(***************************************************************************)
\* Faulty variant: Resolve creates the Checkin it does not find.
ResolveCreatesCheckin(team_id, checkpoint_id) ==
    /\ get_active_group(team_groups, team_id) # {}
    /\ checkins[<<team_id, checkpoint_id>>] = <<>>
    /\ checkins' = [checkins EXCEPT ![<<team_id, checkpoint_id>>] = <<now>>]
    /\ resp' = [op |-> "resolve", ok |-> TRUE,
                value |-> [team_id |-> team_id, checkpoint_id |-> checkpoint_id,
                           group_id |-> CHOOSE g \in get_active_group(team_groups, team_id) : TRUE,
                           latest_score |-> None, latest_total |-> None,
                           checkin_created |-> TRUE, checkin_exists |-> TRUE,
                           rules |-> NoRule]]
    /\ UNCHANGED <<entries, rules, team_groups, now, sub, global_rules, notifier>>

Resolve(team_id, checkpoint_id) ==
    /\ IF get_active_group(team_groups, team_id) = {}
       THEN resp' = [op |-> "resolve", ok |-> FALSE, value |-> None]
       ELSE \E group_id \in get_active_group(team_groups, team_id) :
            \E existing \in IF entries[<<team_id, checkpoint_id>>] = <<>> THEN {0}
                             ELSE NewestEntries(entries, team_id, checkpoint_id) :
               resp' = [op |-> "resolve", ok |-> TRUE,
                        value |-> [team_id |-> team_id,
                                   checkpoint_id |-> checkpoint_id,
                                   group_id |-> group_id,
                                   latest_score |->
                                       IF existing = 0 THEN None
                                       ELSE entries[<<team_id, checkpoint_id>>][existing].raw_fields,
                                   latest_total |->
                                       IF existing = 0 THEN None
                                       ELSE entries[<<team_id, checkpoint_id>>][existing].total,
                                   checkin_created |-> FALSE,
                                   checkin_exists |-> checkins[<<team_id, checkpoint_id>>] # <<>>,
                                   rules |-> get_score_rule(rules, checkpoint_id, group_id)]]
    /\ UNCHANGED <<checkins, entries, rules, team_groups, now, sub, global_rules, notifier>>

(***************************************************************************)
(* _build_scores_context: the "total" of every row of the score table.     *)
(* group_id = 0 stands for a request without a group filter.               *)
(***************************************************************************)
RECURSIVE SumLatest(_, _, _, _)
SumLatest(es, team_id, latest, cps) ==
    IF cps = <<>> THEN 0
    ELSE LET c == Head(cps)
             total == es[<<team_id, c>>][latest[<<team_id, c>>]].total
         IN (IF total.has THEN total.v ELSE 0) + SumLatest(es, team_id, latest, Tail(cps))

table_total(cks, es, team_id, group_id_for_team, latest, global_rule) ==
    LET shown == {c \in Checkpoints :
                     /\ es[<<team_id, c>>] # <<>>
                     /\ group_id_for_team # 0 => c \in group_checkpoints[group_id_for_team]}
        global_total ==
            IF group_id_for_team = 0 THEN 0
            ELSE OrDefault(compute_global_contrib(cks, team_id, group_id_for_team, global_rule).total, 0)
    IN SumLatest(es, team_id, latest, KeyList(shown)) + global_total

ScoreTable(group_id) ==
    LET team_ids == {t \in Teams :
                        group_id # 0 => \E r \in team_groups :
                                           r.team_id = t /\ r.group_id = group_id /\ r.active}
        filled == {pr \in Pairs : pr[1] \in team_ids /\ entries[pr] # <<>>}
        group_choices(t) == IF get_active_group(team_groups, t) = {} THEN {0}
                            ELSE get_active_group(team_groups, t)
        rule_choices(g) == IF g = 0 \/ global_rules[g] = <<>> THEN {NoGlobalRule}
                           ELSE {global_rules[g][i] : i \in DOMAIN global_rules[g]}
    IN /\ \E latest \in [filled -> UNION {DOMAIN entries[pr] : pr \in Pairs}] :
          /\ \A pr \in filled : latest[pr] \in NewestEntries(entries, pr[1], pr[2])
          /\ \E team_group_ids \in [team_ids -> Groups \cup {0}] :
                /\ \A t \in team_ids : team_group_ids[t] \in group_choices(t)
                /\ \E global_rules_map \in [Groups \cup {0} -> GlobalRuleChoices \cup {NoGlobalRule}] :
                      /\ \A g \in Groups \cup {0} : global_rules_map[g] \in rule_choices(g)
                      /\ resp' = [op |-> "score_table", ok |-> TRUE,
                                  value |-> [rows |-> [t \in team_ids |->
                                      table_total(checkins, entries, t,
                                                  team_group_ids[t], latest,
                                                  global_rules_map[team_group_ids[t]])]]]
       /\ UNCHANGED <<checkins, entries, rules, team_groups, now, sub, global_rules, notifier>>

(***************************************************************************)
(* Group assignment.  _apply_group_assignment (team create and update,     *)
(* TeamActiveGroupResource) works on the memberships it loaded with the    *)
(* team, existing_links, and writes when the request commits; another      *)
(* request may commit in between.  selected_group_id = 0 stands for None.  *)
(***************************************************************************)
existing_links(tg, team_id) ==
    [g \in {r.group_id : r \in {x \in tg : x.team_id = team_id}} |->
        (CHOOSE r \in tg : r.team_id = team_id /\ r.group_id = g).active]

AssignBegin(p, team_id, selected_group_id) ==
    /\ sub[p].pc \in {"idle", "failed"}
    /\ sub' = [sub EXCEPT ![p] =
                  [IdleSub EXCEPT !.pc = "assign", !.team_id = team_id,
                                  !.group_id = selected_group_id,
                                  !.pending = existing_links(team_groups, team_id)]]
    /\ UNCHANGED <<checkins, entries, rules, team_groups, now, global_rules, notifier, resp>>

\* The rows after the DELETE, the INSERT or UPDATE and the commit; ok is
\* FALSE when the flush raises: the INSERT meets a row of uq_team_group that
\* was committed meanwhile, or the UPDATE finds its row deleted.
apply_group_assignment(tg, team_id, selected_group_id, links) ==
    LET to_remove == DOMAIN links \ {selected_group_id}
        kept == {r \in tg : ~(r.team_id = team_id /\ r.group_id \in to_remove)}
        mine == {r \in kept : r.team_id = team_id /\ r.group_id = selected_group_id}
    IN IF selected_group_id = 0
       THEN [ok |-> TRUE,
             rows |-> IF DOMAIN links # {} THEN {r \in tg : r.team_id # team_id} ELSE tg]
       ELSE IF selected_group_id \notin DOMAIN links
       THEN IF mine # {} THEN [ok |-> FALSE, rows |-> tg]
            ELSE [ok |-> TRUE,
                  rows |-> kept \cup {[team_id |-> team_id, group_id |-> selected_group_id,
                                        active |-> TRUE]}]
       ELSE IF links[selected_group_id] THEN [ok |-> TRUE, rows |-> kept]
       ELSE IF mine = {} THEN [ok |-> FALSE, rows |-> tg]
       ELSE [ok |-> TRUE,
             rows |-> (kept \ mine) \cup {[r EXCEPT !.active = TRUE] : r \in mine}]

AssignCommit(p) ==
    /\ sub[p].pc = "assign"
    /\ LET done == apply_group_assignment(team_groups, sub[p].team_id, sub[p].group_id,
                                          sub[p].pending)
       IN /\ team_groups' = done.rows
          /\ sub' = [sub EXCEPT ![p] = IF done.ok THEN IdleSub ELSE FailedSub]
    /\ UNCHANGED <<checkins, entries, rules, now, global_rules, notifier, resp>>

\* set_active_group_for_team: the UPDATE of the active rows, the lookup and
\* the write of the row of the group, in one write transaction.
SetActive(team_id, group_id) ==
    LET cleared == {[r EXCEPT !.active = r.active /\ r.team_id # team_id] : r \in team_groups}
        tg == {r \in cleared : r.team_id = team_id /\ r.group_id = group_id}
    IN /\ team_groups' =
             IF tg # {} THEN (cleared \ tg) \cup {[r EXCEPT !.active = TRUE] : r \in tg}
             ELSE cleared \cup {[team_id |-> team_id, group_id |-> group_id, active |-> TRUE]}
       /\ UNCHANGED <<checkins, entries, rules, now, sub, global_rules, notifier, resp>>

(***************************************************************************)
(* Check-ins made outside Submit.                                          *)
(***************************************************************************)
\* IngestResource.post: a card seen by the device of a checkpoint.
Ingest(team_id, checkpoint_id, received_at) ==
    /\ checkins[<<team_id, checkpoint_id>>] = <<>>
    /\ checkins' = [checkins EXCEPT ![<<team_id, checkpoint_id>>] = <<received_at>>]
    /\ UNCHANGED <<entries, rules, team_groups, now, sub, global_rules, notifier, resp>>

\* CheckinListResource.post with override=replace.
CheckinReplace(team_id, checkpoint_id, ts) ==
    /\ \E i \in DOMAIN checkins[<<team_id, checkpoint_id>>] :
          checkins' = [checkins EXCEPT ![<<team_id, checkpoint_id>>][i] = ts]
    /\ UNCHANGED <<entries, rules, team_groups, now, sub, global_rules, notifier, resp>>

Tick ==
    /\ now < MaxTime
    /\ now' = now + 1
    /\ UNCHANGED <<checkins, entries, rules, team_groups, sub, global_rules, notifier, resp>>

Quiescent == \A p \in Procs : sub[p].pc \in {"idle", "failed"}

(***************************************************************************)
(* Spec: the judges of two teams, the administrator and the start device,  *)
(* one request at a time.                                                  *)
(***************************************************************************)
MaxEntries == 2
SubmitInputs == ({EndCP} \X RawChoices) \cup ({StartCP} \X {[k \in {"x"} |-> Num(2)]})

Next ==
    \/ \E t \in {1, 2}, in \in SubmitInputs :
          Admitted < MaxEntries /\ SubmitBegin(1, t, in[1], in[2])
    \/ SubmitCheckin(1)
    \/ SubmitEntry(1)
    \/ SubmitRace(1)
    \/ SubmitWrite(1)
    \/ SubmitFail(1)
    \/ \E r \in RuleChoices : Quiescent /\ SaveRule(EndCP, 1, r)
    \/ Quiescent /\ Ingest(1, StartCP, now)
    \/ Quiescent /\ CheckinReplace(1, StartCP, now)
    \/ Tick

Spec == Init /\ [][Next]_vars

(***************************************************************************)
(* SpecRace: a time_race rule on the finish checkpoint of group 1, every   *)
(* team started at time 0, two workers serving Submits concurrently.       *)
(***************************************************************************)
MaxRaceEntries == 3
RaceRaws == {EmptyMap, [k \in {"x"} |-> Num(2)]}

InitRace ==
    /\ checkins = [pr \in Pairs |-> IF pr[2] = StartCP THEN <<0>> ELSE <<>>]
    /\ entries = [pr \in Pairs |-> <<>>]
    /\ rules = [k \in Checkpoints \X Groups |-> IF k = <<EndCP, 1>> THEN <<RaceRule>> ELSE <<>>]
    /\ team_groups = {[team_id |-> t, group_id |-> 1, active |-> TRUE] : t \in Teams}
    /\ now = 0
    /\ sub = [p \in Procs |-> IdleSub]
    /\ global_rules = [g \in Groups |-> <<>>]
    /\ notifier = "up"
    /\ resp = NoResp

\* Worker 2 takes a request only while worker 1 is busy: which worker serves a
\* request makes no difference.
NextRace ==
    \/ \E p \in Procs, t \in Teams, f \in RaceRaws :
          /\ Admitted < MaxRaceEntries
          /\ p = 2 => sub[1].pc \notin {"idle", "failed"}
          /\ SubmitBegin(p, t, EndCP, f)
    \/ \E p \in Procs : SubmitCheckin(p)
    \/ \E p \in Procs : SubmitEntry(p)
    \/ \E p \in Procs : SubmitRace(p)
    \/ \E p \in Procs : SubmitWrite(p)
    \/ Tick

SpecRace == InitRace /\ [][NextRace]_vars

(***************************************************************************)
(* SpecAdmin: two teams of group 1 submit at the finish checkpoint, one    *)
(* request at a time, while the administrator saves rules; a save may hit  *)
(* a persistence error in its recomputation, and the sheet notifier is up  *)
(* or down for the whole run.                                              *)
(***************************************************************************)
MaxAdminEntries == 2

InitAdmin ==
    /\ checkins = [pr \in Pairs |-> <<>>]
    /\ entries = [pr \in Pairs |-> <<>>]
    /\ rules = [k \in Checkpoints \X Groups |-> <<>>]
    /\ team_groups = {[team_id |-> t, group_id |-> 1, active |-> TRUE] : t \in {1, 2}}
    /\ now = 0
    /\ sub = [p \in Procs |-> IdleSub]
    /\ global_rules = [g \in Groups |-> <<>>]
    /\ notifier \in {"up", "down"}
    /\ resp = NoResp

NextAdmin ==
    \/ \E t \in {1, 2} :
          Admitted < MaxAdminEntries /\ SubmitBegin(1, t, EndCP, [k \in {"x"} |-> Num(2)])
    \/ SubmitCheckin(1)
    \/ SubmitEntry(1)
    \/ SubmitRace(1)
    \/ SubmitWrite(1)
    \/ \E r \in RuleChoices : Quiescent /\ SaveRule(EndCP, 1, r)
    \/ \E r \in RuleChoices : Quiescent /\ SaveRuleFailed(EndCP, 1, r)
    \/ \E r \in GlobalRuleChoices : Quiescent /\ SaveGlobalRule(1, r)

SpecAdmin == InitAdmin /\ [][NextAdmin]_vars

(***************************************************************************)
(* SpecRead: the judges of teams 1 and 2 submit, one request at a time,    *)
(* the administrator saves global rules, and between two requests Resolve  *)
(* and the score table are read.  Team 3 has no group.                     *)
(***************************************************************************)
MaxReadEntries == 2
ReadInputs ==
    ({EndCP} \X {[k \in {"x"} |-> Num(2)],
                 [k \in {"x", "score"} |-> IF k = "x" THEN Num(2) ELSE Num(7)]})
    \cup ({StartCP} \X {[k \in {"x"} |-> Num(2)]})

NextRead ==
    \/ \E t \in {1, 2}, in \in ReadInputs :
          Admitted < MaxReadEntries /\ SubmitBegin(1, t, in[1], in[2])
    \/ SubmitCheckin(1)
    \/ SubmitEntry(1)
    \/ Tick
    \/ \E r \in GlobalRuleChoices : Quiescent /\ SaveGlobalRule(1, r)
    \/ \E t \in Teams, c \in Checkpoints : Quiescent /\ Resolve(t, c)
    \/ \E g \in {0, 1} : Quiescent /\ ScoreTable(g)
    \/ \E t \in Teams \cup {0}, c \in Checkpoints \cup {0}, u \in Users :
          Quiescent /\ SubmitRejected(t, c, u)

SpecRead == Init /\ [][NextRead]_vars

(***************************************************************************)
(* SpecPlain: worker 1 serves the judge of team 1 and worker 2 the judge   *)
(* of team 2, concurrently; the finish checkpoint has the multiplier rule  *)
(* for group 1 and no checkpoint has a time_race rule.                     *)
(***************************************************************************)
MaxPlainEntries == 3

InitPlain ==
    /\ checkins = [pr \in Pairs |-> <<>>]
    /\ entries = [pr \in Pairs |-> <<>>]
    /\ rules = [k \in Checkpoints \X Groups |-> IF k = <<EndCP, 1>> THEN <<FieldRule>> ELSE <<>>]
    /\ team_groups = {[team_id |-> t, group_id |-> 1, active |-> TRUE] : t \in {1, 2}}
    /\ now = 0
    /\ sub = [p \in Procs |-> IdleSub]
    /\ global_rules = [g \in Groups |-> <<>>]
    /\ notifier = "up"
    /\ resp = NoResp

NextPlain ==
    \/ \E p \in Procs, in \in ReadInputs :
          Admitted < MaxPlainEntries /\ SubmitBegin(p, p, in[1], in[2])
    \/ \E p \in Procs : SubmitCheckin(p)
    \/ \E p \in Procs : SubmitEntry(p)
    \/ Tick

SpecPlain == InitPlain /\ [][NextPlain]_vars

(***************************************************************************)
(* SpecNormalizer: the Relative Race Normalizer on every table of          *)
(* Checkins in which a team has a start Checkin of time 0 or none and an   *)
(* end Checkin of time 10, 20 or 30 or none.                               *)
(***************************************************************************)
NormalizerPoints == {<<0, 100>>, <<20, 60>>}

InitNormalizer ==
    /\ checkins \in [Pairs -> {<<>>, <<0>>, <<10>>, <<20>>, <<30>>}]
    /\ \A t \in Teams : /\ checkins[<<t, StartCP>>] \in {<<>>, <<0>>}
                         /\ checkins[<<t, EndCP>>] \in {<<>>, <<10>>, <<20>>, <<30>>}
    /\ entries = [pr \in Pairs |-> <<>>]
    /\ rules = [k \in Checkpoints \X Groups |-> <<>>]
    /\ team_groups = {[team_id |-> t, group_id |-> 1, active |-> TRUE] : t \in Teams}
    /\ now = 0
    /\ sub = [p \in Procs |-> IdleSub]
    /\ global_rules = [g \in Groups |-> <<>>]
    /\ notifier = "up"
    /\ resp = NoResp

Normalize(team_ids, min_points, max_points) ==
    /\ resp' = [op |-> "time_race_scores", ok |-> TRUE,
                value |-> [team_ids |-> team_ids, min_points |-> min_points,
                           max_points |-> max_points,
                           scores |-> compute_time_race_scores_from_checkins(
                                          checkins, team_ids, StartCP, EndCP,
                                          min_points, max_points)]]
    /\ UNCHANGED <<checkins, entries, rules, team_groups, now, sub, global_rules, notifier>>

NextNormalizer ==
    \E pts \in NormalizerPoints : Normalize(Teams, pts[1], pts[2])

SpecNormalizer == InitNormalizer /\ [][NextNormalizer]_vars

(***************************************************************************)
(* SpecThreshold: the global contribution of team 1 on every pair of a     *)
(* start Checkin and an end Checkin, under time rules with max_points 10.  *)
(***************************************************************************)
MaxDuration == 4

ThresholdRules ==
    {[GlobalTimeRule EXCEPT !.time.threshold_minutes = Num(th),
                            !.time.penalty_minutes = Num(pm),
                            !.time.penalty_points = Num(pp),
                            !.time.min_points = mn] :
        th \in {0, 1, 2}, pm \in {1, 2}, pp \in {4, 6}, mn \in {None, Num(3)}}

InitThreshold ==
    /\ checkins \in [Pairs -> {<<>>} \cup {<<ts>> : ts \in 0..MaxDuration}]
    /\ \A pr \in Pairs : pr[1] # 1 => checkins[pr] = <<>>
    /\ checkins[<<1, StartCP>>] \in {<<>>, <<0>>, <<1>>}
    /\ entries = [pr \in Pairs |-> <<>>]
    /\ rules = [k \in Checkpoints \X Groups |-> <<>>]
    /\ team_groups = {[team_id |-> 1, group_id |-> 1, active |-> TRUE]}
    /\ now = 0
    /\ sub = [p \in Procs |-> IdleSub]
    /\ global_rules = [g \in Groups |-> <<>>]
    /\ notifier = "up"
    /\ resp = NoResp

GlobalContrib(team_id, group_id, global_rule) ==
    /\ resp' = [op |-> "global_contrib", ok |-> TRUE,
                value |-> [team_id |-> team_id, rule |-> global_rule,
                           data |-> compute_global_contrib(checkins, team_id, group_id,
                                                           global_rule)]]
    /\ UNCHANGED <<checkins, entries, rules, team_groups, now, sub, global_rules, notifier>>

NextThreshold ==
    \E r \in ThresholdRules : GlobalContrib(1, 1, r)

SpecThreshold == InitThreshold /\ [][NextThreshold]_vars

(***************************************************************************)
(* SpecTotal: the Total Calculator on raw fields x, y and dead_time under   *)
(* rules whose field rule for x is of every type and fails in every way.   *)
(***************************************************************************)
XRules ==
    { [type |-> "multiplier", factor |-> Num(3)],
      [type |-> "multiplier", factor |-> None],
      [type |-> "mapping", map |-> [k \in {"a"} |-> Num(5)]],
      [type |-> "deviation", target |-> Num(4), max_points |-> Num(10),
       penalty_points |-> Num(2), penalty_distance |-> Num(1), min_points |-> None],
      [type |-> "deviation", target |-> Num(4), max_points |-> Num(10),
       penalty_points |-> Num(2), penalty_distance |-> Num(0), min_points |-> None],
      [type |-> "interpolate", points |-> << <<4, 8>>, <<0, 0>> >>],
      [type |-> "interpolate", points |-> <<>>] }

TotalRules ==
    {[present |-> TRUE, field_rules |-> [k \in {"x"} |-> xr], total_fields |-> tf,
      time_race |-> NoTimeRace] :
        xr \in XRules, tf \in {<<>>, <<"x", "y">>, <<"x", "dead_time">>}}

TotalValues ==
    {[k \in ks |-> CASE k = "x" -> xv [] k = "y" -> Num(4) [] OTHER -> Num(1)] :
        ks \in SUBSET {"x", "y", "dead_time"}, xv \in {Num(2), Str("bad"), Str("a")}}

InitTotal ==
    /\ checkins = [pr \in Pairs |-> <<>>]
    /\ entries = [pr \in Pairs |-> <<>>]
    /\ rules = [k \in Checkpoints \X Groups |-> <<>>]
    /\ team_groups = {}
    /\ now = 0
    /\ \E values \in TotalValues, rule \in TotalRules :
          sub = [p \in Procs |-> IF p = 1 THEN [IdleSub EXCEPT !.fields = values, !.rule = rule]
                                 ELSE IdleSub]
    /\ global_rules = [g \in Groups |-> <<>>]
    /\ notifier = "up"
    /\ resp = NoResp

ComputeTotal(p) ==
    /\ resp' = [op |-> "compute_total", ok |-> TRUE,
                value |-> [total |-> compute_total(sub[p].fields, points_header, sub[p].rule)]]
    /\ UNCHANGED <<checkins, entries, rules, team_groups, now, sub, global_rules, notifier>>

NextTotal == ComputeTotal(1)

SpecTotal == InitTotal /\ [][NextTotal]_vars

(***************************************************************************)
(* SpecDelete: the two teams of group 1 submit at the finish checkpoint,   *)
(* one request at a time, while the administrator saves and deletes the    *)
(* rule of (finish, group 1) and of (start, group 1).                      *)
(***************************************************************************)
MaxDeleteEntries == 2

NextDelete ==
    \/ \E t \in {1, 2} :
          Admitted < MaxDeleteEntries /\ SubmitBegin(1, t, EndCP, [k \in {"x"} |-> Num(2)])
    \/ SubmitCheckin(1)
    \/ SubmitEntry(1)
    \/ SubmitRace(1)
    \/ SubmitWrite(1)
    \/ \E c \in Checkpoints, r \in RuleChoices : Quiescent /\ SaveRule(c, 1, r)
    \/ \E c \in Checkpoints : Quiescent /\ DeleteRule(c, 1)

SpecDelete == InitAdmin /\ [][NextDelete]_vars

(***************************************************************************)
(* SpecGroups: two workers serve group assignments of teams 1 and 2.       *)
(***************************************************************************)
NextGroups ==
    \/ \E p \in Procs, t \in {1, 2}, g \in Groups \cup {0} : AssignBegin(p, t, g)
    \/ \E p \in Procs : AssignCommit(p)
    \/ \E t \in {1, 2}, g \in Groups : Quiescent /\ SetActive(t, g)

SpecGroups == Init /\ [][NextGroups]_vars

(***************************************************************************)
(* Properties.  A cohort is the set of teams with an active membership in  *)
(* the group and an entry at the checkpoint.  NormalizerScores is what the *)
(* time-race normalizer assigns to the cohort from the check-ins of a      *)
(* state, with the bounds of the stored rule.                              *)
(***************************************************************************)
RaceCohorts == {k \in Checkpoints \X Groups : HasTimeRace(get_score_rule(rules, k[1], k[2]))}

NormalizerScores(cks, es, tg, rule, checkpoint_id, group_id) ==
    compute_time_race_scores_from_checkins(cks, CohortTeams(es, tg, checkpoint_id, group_id),
        rule.time_race.start_checkpoint_id, rule.time_race.end_checkpoint_id,
        OrDefault(rule.time_race.min_points, 0), OrDefault(rule.time_race.max_points, 0))

AllIdle == \A p \in Procs : sub[p].pc = "idle"

\* C1: under a time_race rule with both checkpoints, once the Submits to the
\* checkpoint have completed, the total stored on the current entry of every
\* qualifying cohort team is exactly the score the normalizer assigns to the
\* team: the race score replaces the field-based total.
C1_RaceScoreReplacesTotal ==
    Quiescent =>
        \A k \in RaceCohorts :
            LET scores == NormalizerScores(checkins, entries, team_groups, get_score_rule(rules, k[1], k[2]), k[1], k[2])
            IN \A t \in DOMAIN scores :
                  \E i \in NewestEntries(entries, t, k[1]) :
                      entries[<<t, k[1]>>][i].total = Num(scores[t])

\* C2: in every state with no request in flight, reached by Submits, rule
\* saves and check-ins created or re-timed by the check-in API, the device
\* ingest or a Submit, the current entry of every qualifying cohort team of
\* a time_race rule carries the normalizer's score over the check-ins of that
\* state.  Stated for the entries whose raw fields yield no total of their own.
C2_TotalsFollowCheckins ==
    AllIdle =>
        \A k \in RaceCohorts :
            LET scores == NormalizerScores(checkins, entries, team_groups, get_score_rule(rules, k[1], k[2]), k[1], k[2])
            IN \A t \in DOMAIN scores :
                  \E i \in NewestEntries(entries, t, k[1]) :
                      LET e == entries[<<t, k[1]>>][i]
                      IN compute_total(e.raw_fields, points_header, get_score_rule(rules, k[1], k[2])) = None
                            => e.total = Num(scores[t])

\* C3: whatever the interleaving of two concurrent Submits into one time_race
\* cohort, when both have completed the totals of the qualifying teams are the
\* normalizer's scores over the final check-ins and entries: no update of one
\* Submit is lost to the other.  Stated for the teams with a single entry whose
\* raw fields yield no total of their own.
C3_NoLostUpdate ==
    (Quiescent /\ EntryCount(entries) >= 2) =>
        \A k \in RaceCohorts :
            LET scores == NormalizerScores(checkins, entries, team_groups, get_score_rule(rules, k[1], k[2]), k[1], k[2])
            IN \A t \in DOMAIN scores :
                  LET e == entries[<<t, k[1]>>][1]
                  IN (/\ Len(entries[<<t, k[1]>>]) = 1
                      /\ compute_total(e.raw_fields, points_header, get_score_rule(rules, k[1], k[2])) = None)
                        => e.total = Num(scores[t])

(***************************************************************************)
(* A Submit of a third team's first entry, at its cohort recomputation:    *)
(* the request of worker p has inserted the only entry of its team and the *)
(* cohort holds three teams.  sub'[p].pending is what its last commit      *)
(* writes.                                                                 *)
(***************************************************************************)
ThirdTeamRecompute(p) ==
    /\ sub[p].pc = "race"
    /\ Len(entries[<<sub[p].team_id, sub[p].checkpoint_id>>]) = 1
    /\ Cardinality(CohortTeams(entries, team_groups, sub[p].checkpoint_id, sub[p].group_id)) = 3

OtherTeams(p) ==
    CohortTeams(entries, team_groups, sub[p].checkpoint_id, sub[p].group_id) \ {sub[p].team_id}

SubmitReturns(p) == sub[p].pc \in {"entry", "write"} /\ sub'[p].pc = "idle"

SubmittedEntry(p) ==
    LET rows == entries'[<<sub[p].team_id, sub[p].checkpoint_id>>]
    IN IF sub[p].pc = "write" THEN rows[sub[p].entry_id] ELSE rows[Len(rows)]

\* The explicit score of a submission: "points", else the points header.
ExplicitScore(values) ==
    IF "points" \in DOMAIN values THEN to_number(values["points"])
    ELSE IF points_header \in DOMAIN values THEN to_number(values[points_header])
    ELSE None

C9_SubmitKeepsTimestamp ==
    [][sub' # sub =>
          \A pr \in Pairs : \A i \in DOMAIN checkins[pr] :
              i \in DOMAIN checkins'[pr] /\ checkins'[pr][i] = checkins[pr][i]]_vars

\* A Submit has found the Checkin of an earlier time and inserted its entry.
C9_Witness ==
    \E pr \in Pairs :
        /\ Len(entries[pr]) = 2
        /\ entries[pr][2].checkin_id = 1
        /\ entries[pr][2].created_at > checkins[pr][1]
        /\ sub[1].pc = "idle"

\* C10: a Submit either completes or leaves no trace: when a Submit ends with
\* an error, it has committed neither a Checkin nor an entry.
C10_SubmitAllOrNothing ==
    [][\A p \in Procs :
          (sub[p].pc # "failed" /\ sub'[p].pc = "failed")
             => (~sub[p].created_checkin /\ sub[p].pc # "write")]_vars

(***************************************************************************)
(* What the recomputation triggered by a save of rule for (checkpoint,     *)
(* group) assigns to row i of team t, and the statement that the current   *)
(* entry of every cohort team carries it after the step.                   *)
(***************************************************************************)
RecomputedTotal(checkpoint_id, group_id, rule, t, i) ==
    LET e == entries[<<t, checkpoint_id>>][i]
    IN IF HasTimeRace(rule)
       THEN LET scores == NormalizerScores(checkins, entries, team_groups, rule,
                                           checkpoint_id, group_id)
            IN IF t \in DOMAIN scores THEN Num(scores[t]) ELSE e.total
       ELSE compute_total(e.raw_fields, "", rule)

CohortRecomputed(checkpoint_id, group_id, rule) ==
    \A t \in CohortTeams(entries, team_groups, checkpoint_id, group_id) :
        \E i \in NewestEntries(entries, t, checkpoint_id) :
            entries'[<<t, checkpoint_id>>][i].total =
                RecomputedTotal(checkpoint_id, group_id, rule, t, i)

\* C11: one run of the recomputation after a rule change overwrites the
\* totals of all current entries of the cohort or of none: after a save,
\* whether its recomputation succeeded or failed, either every current entry
\* of the cohort carries its total under the new rule or no entry changed.
C11_RecomputeAllOrNothing ==
    [][\A c \in Checkpoints, g \in Groups, r \in RuleChoices :
          (SaveRule(c, g, r) \/ SaveRuleFailed(c, g, r))
             => (CohortRecomputed(c, g, r) \/ entries' = entries)]_vars

\* Both teams of the cohort carry 3 * 2 under the multiplier rule.
C11_Witness ==
    /\ get_score_rule(rules, EndCP, 1) = FieldRule
    /\ \A t \in {1, 2} :
          /\ Len(entries[<<t, EndCP>>]) = 1
          /\ entries[<<t, EndCP>>][1].total = Num(6)

\* C12: a save of a rule whose recomputation fails with a persistence error
\* does not return success: whenever a save has answered with success, the
\* current entries of the cohort carry their totals under the saved rule.
C12_FailedRecomputeNotSuccess ==
    [][\A c \in Checkpoints, g \in Groups, r \in RuleChoices :
          ((SaveRule(c, g, r) \/ SaveRuleFailed(c, g, r)) /\ resp'.ok)
             => CohortRecomputed(c, g, r)]_vars

\* C13: when the sheet notifier raises, a Submit still commits its Checkin,
\* its entry and its cohort totals and goes on to its normal result, and a
\* rule save still commits every total of its recomputation and answers with
\* success.
C13_NotifierFailureDiscarded ==
    [][notifier = "down" =>
          /\ \A p \in Procs :
                (sub[p].pc \in {"checkin", "entry", "write"} /\ sub'[p] # sub[p])
                   => /\ sub'[p].pc # "failed"
                      /\ sub[p].pc = "checkin" => Len(checkins'[<<sub[p].team_id, sub[p].checkpoint_id>>]) = 1
                      /\ sub[p].pc = "entry" => EntryCount(entries') = EntryCount(entries) + 1
                      /\ sub[p].pc = "write" =>
                            entries' = ApplyTotals(entries, sub[p].checkpoint_id, sub[p].pending)
          /\ \A c \in Checkpoints, g \in Groups, r \in RuleChoices :
                (rules' # rules /\ ~SaveRuleFailed(c, g, r)
                    /\ rules' = save_rule_row(rules, c, g, r))
                   => (CohortRecomputed(c, g, r) /\ resp'.ok)]_vars

\* With the notifier down, both teams have submitted and the save of the
\* multiplier rule has rescored their entries.
C13_Witness ==
    /\ notifier = "down"
    /\ get_score_rule(rules, EndCP, 1) = FieldRule
    /\ resp.ok
    /\ \A p \in Procs : sub[p].pc = "idle"
    /\ \A t \in {1, 2} :
          /\ Len(checkins[<<t, EndCP>>]) = 1
          /\ Len(entries[<<t, EndCP>>]) = 1
          /\ entries[<<t, EndCP>>][1].total = Num(6)

\* C14: Resolve is read-only: whatever its input, accepted or rejected, it
\* leaves every Checkin, ScoreEntry, ScoreRule and group membership as it
\* was, and it never reports or makes a created Checkin.
C14_ResolveReadOnly ==
    [][\A t \in Teams, c \in Checkpoints :
          (resp'.op = "resolve" /\ (Resolve(t, c) \/ resp.op # "resolve" \/ resp' # resp))
             => /\ checkins' = checkins
                /\ entries' = entries
                /\ rules' = rules
                /\ global_rules' = global_rules
                /\ team_groups' = team_groups
                /\ resp'.ok => ~resp'.value.checkin_created]_vars

\* Resolve has answered for a pair that has no Checkin, and none exists.
C14_Witness ==
    /\ resp.op = "resolve"
    /\ resp.ok
    /\ ~resp.value.checkin_exists
    /\ checkins[<<resp.value.team_id, resp.value.checkpoint_id>>] = <<>>

\* The row of a (team, checkpoint) the specification calls current: the
\* greatest created_at, and among equal created_at the one inserted last.
CurrentEntry(es, team_id, checkpoint_id) ==
    SetMax(NewestEntries(es, team_id, checkpoint_id))

\* C15: among entries of one (team, checkpoint) with equal created_at a
\* reader of the current entry takes the row inserted last: Resolve returns
\* the fields and the total of the row with the greatest id among the rows
\* with the greatest created_at.
C15_TieSelectsLaterRow ==
    [][\A t \in Teams, c \in Checkpoints :
          (resp'.op = "resolve" /\ Resolve(t, c) /\ resp'.ok /\ entries[<<t, c>>] # <<>>)
             => /\ resp'.value.latest_score =
                      entries[<<t, c>>][CurrentEntry(entries, t, c)].raw_fields
                /\ resp'.value.latest_total =
                      entries[<<t, c>>][CurrentEntry(entries, t, c)].total]_vars

\* The total the specification gives a team of group g: the totals of its
\* current entries at the checkpoints of g, None counting 0, plus the
\* contribution of the global rule of g.
RECURSIVE SumCurrent(_, _, _)
SumCurrent(es, team_id, cps) ==
    IF cps = <<>> THEN 0
    ELSE LET c == Head(cps)
             total == es[<<team_id, c>>][CurrentEntry(es, team_id, c)].total
         IN (IF total.has THEN total.v ELSE 0) + SumCurrent(es, team_id, Tail(cps))

TeamTotal(team_id, group_id) ==
    LET shown == {c \in group_checkpoints[group_id] : entries[<<team_id, c>>] # <<>>}
        global_rule == IF global_rules[group_id] = <<>> THEN NoGlobalRule
                       ELSE global_rules[group_id][1]
    IN SumCurrent(entries, team_id, KeyList(shown))
         + OrDefault(compute_global_contrib(checkins, team_id, group_id, global_rule).total, 0)

\* C16: the total of a team in the score table is the sum of the totals of
\* its current entries at the checkpoints linked to its active group, a null
\* total counting 0, plus the contribution of the global rule of that group,
\* 0 when there is no rule or no contribution.
C16_TableTotal ==
    [][\A g \in Groups \cup {0} :
          (resp'.op = "score_table" /\ ScoreTable(g))
             => \A t \in DOMAIN resp'.value.rows :
                   get_active_group(team_groups, t) # {}
                      => \E tg \in get_active_group(team_groups, t) :
                            resp'.value.rows[t] = TeamTotal(t, tg)]_vars

\* C17: after any sequence of rule saves a scope holds at most one ScoreRule
\* row and a group at most one GlobalScoreRule row, and a save for a scope
\* that has a row replaces the rules of that row and adds none.
C17_OneRulePerScope ==
    [][/\ \A k \in Checkpoints \X Groups :
             /\ Len(rules'[k]) <= 1
             /\ (rules[k] # <<>> /\ rules'[k] # rules[k])
                   => (Len(rules'[k]) = Len(rules[k]) /\ resp'.value.updated)
       /\ \A g \in Groups :
             /\ Len(global_rules'[g]) <= 1
             /\ (global_rules[g] # <<>> /\ global_rules'[g] # global_rules[g])
                   => (Len(global_rules'[g]) = Len(global_rules[g]) /\ resp'.value.updated)]_vars

\* A save has replaced the rules of the existing row of (finish, group 1),
\* and the group's global rule has been replaced as well.
C17_Witness ==
    /\ resp.op = "save_rule"
    /\ resp.value.updated
    /\ Len(rules[<<EndCP, 1>>]) = 1
    /\ rules[<<EndCP, 1>>][1] = FieldRule
    /\ global_rules[1] = <<GlobalTimeRule>>

\* C18: after any sequence or interleaving of group assignments every team
\* has at most one membership row with active = true.
C18_OneActiveGroup ==
    \A t \in Teams :
        Cardinality({r \in team_groups : r.team_id = t /\ r.active}) <= 1

\* C19: no group assignment removes a membership row: every (team, group)
\* row of the store is still there after the step, and a row that is no
\* longer the active one is there with active = false.
C19_MembershipsKept ==
    [][\A r \in team_groups :
          \E q \in team_groups' : q.team_id = r.team_id /\ q.group_id = r.group_id]_vars

C21_GlobalContribOwnData ==
    [][\A t \in Teams, g \in Groups, r \in GlobalRuleChoices :
          (\A c \in Checkpoints : checkins'[<<t, c>>] = checkins[<<t, c>>])
             => compute_global_contrib(checkins', t, g, r)
                   = compute_global_contrib(checkins, t, g, r)]_vars

\* Team 1 has its start Checkin of time 0 and 5 found points; team 2 made
\* its Checkin and its entry later, at time 1.
C21_Witness ==
    /\ checkins[<<1, StartCP>>] = <<0>>
    /\ checkins[<<1, EndCP>>] = <<>>
    /\ checkins[<<2, EndCP>>] = <<1>>
    /\ Len(entries[<<2, EndCP>>]) = 1
    /\ global_rules[1] = <<GlobalFoundRule>>
    /\ compute_global_contrib(checkins, 1, 1, GlobalFoundRule).found_points = Num(5)

\* C22: among the teams that have both Checkins, when the durations are not
\* all equal a team with the least duration gets max_points, a team with
\* the greatest gets min_points and every team lies on the line between
\* them, (max_points - score) * (max_d - min_d) = (d - min_d) * (max_points
\* - min_points); when all durations are equal every team gets max_points.
\* Teams without both Checkins get no score.
C22_NormalizerLinear ==
    resp.op = "time_race_scores" =>
        LET scores == resp.value.scores
            min_points == resp.value.min_points
            max_points == resp.value.max_points
            qualifying == {t \in resp.value.team_ids :
                              checkins[<<t, StartCP>>] # <<>> /\ checkins[<<t, EndCP>>] # <<>>}
            d(t) == checkins[<<t, EndCP>>][1] - checkins[<<t, StartCP>>][1]
        IN /\ DOMAIN scores = qualifying
           /\ \A t \in qualifying :
                 LET min_d == SetMin({d(u) : u \in qualifying})
                     max_d == SetMax({d(u) : u \in qualifying})
                 IN IF max_d = min_d THEN scores[t] = max_points
                    ELSE /\ d(t) = min_d => scores[t] = max_points
                         /\ d(t) = max_d => scores[t] = min_points
                         /\ (max_points - scores[t]) * (max_d - min_d)
                               = (d(t) - min_d) * (max_points - min_points)

\* Durations 10, 20 and 30 with min_points 0 and max_points 100 have given
\* 100, 50 and 0.
C22_Witness ==
    /\ resp.op = "time_race_scores"
    /\ \A t \in Teams : checkins[<<t, StartCP>>] = <<0>> /\ checkins[<<t, EndCP>>] = <<10 * t>>
    /\ resp.value.min_points = 0
    /\ resp.value.max_points = 100
    /\ resp.value.scores = [t \in Teams |-> IF t = 1 THEN 100 ELSE IF t = 2 THEN 50 ELSE 0]

\* C23: for a team with a start and an end Checkin under a full time rule
\* the time points are max_points up to and at the threshold, max_points -
\* penalty_points one penalty_minutes block over it, on the line max_points
\* - (over / penalty_minutes) * penalty_points beyond it, and never below
\* min_points, which is 0 when the rule gives none.
C23_ThresholdPoints ==
    (/\ resp.op = "global_contrib"
     /\ checkins[<<resp.value.team_id, StartCP>>] # <<>>
     /\ checkins[<<resp.value.team_id, EndCP>>] # <<>>)
    => LET time_rule == resp.value.rule.time
           time_points == resp.value.data.time_points
           d == checkins[<<resp.value.team_id, EndCP>>][1]
                  - checkins[<<resp.value.team_id, StartCP>>][1]
           threshold == time_rule.threshold_minutes.v
           block == time_rule.penalty_minutes.v
           floor == IF time_rule.min_points.has THEN time_rule.min_points.v ELSE 0
           line == time_rule.max_points.v * block - (d - threshold) * time_rule.penalty_points.v
       IN /\ time_points.has
          /\ time_points.v >= floor
          /\ d <= threshold => time_points.v = time_rule.max_points.v
          /\ d = threshold + block =>
                time_points.v = IF time_rule.max_points.v - time_rule.penalty_points.v < floor
                                THEN floor
                                ELSE time_rule.max_points.v - time_rule.penalty_points.v
          /\ d > threshold =>
                time_points.v * block = IF line < floor * block THEN floor * block ELSE line

\* Threshold 1, blocks of 2 minutes costing 4 points: a duration of 3 has
\* given 10 - 4.
C23_Witness ==
    /\ resp.op = "global_contrib"
    /\ checkins[<<1, StartCP>>] = <<0>>
    /\ checkins[<<1, EndCP>>] = <<3>>
    /\ resp.value.rule.time.threshold_minutes = Num(1)
    /\ resp.value.rule.time.penalty_minutes = Num(2)
    /\ resp.value.rule.time.penalty_points = Num(4)
    /\ resp.value.data.time_points = Num(6)

\* The evaluated value of a raw field under a rule with field rules.
Evaluated(values, rule, key) ==
    IF key \notin DOMAIN values THEN None
    ELSE IF key \in DOMAIN rule.field_rules
    THEN apply_field_rule(values[key], rule.field_rules[key])
    ELSE to_number(values[key])

Contribution(values, rule, key) ==
    IF Evaluated(values, rule, key).has THEN Evaluated(values, rule, key).v ELSE 0

\* C24: in a rule-driven total dead_time stays out of the sum when
\* total_fields is absent, and when total_fields names dead_time its evaluated
\* value is part of the sum.
C24_DeadTimeOnlyWhenListed ==
    LET values == sub[1].fields
        rule == sub[1].rule
    IN (resp.op = "compute_total" /\ Evaluated(values, rule, "x").has)
          => /\ rule.total_fields = <<>>
                  => resp.value.total = Num(Contribution(values, rule, "x")
                                              + Contribution(values, rule, "y"))
             /\ rule.total_fields = <<"x", "dead_time">>
                  => resp.value.total = Num(Contribution(values, rule, "x")
                                              + Contribution(values, rule, "dead_time"))

\* The keys a rule-driven total sums: total_fields, or every evaluated key,
\* without dead_time.
SummedKeys(values, rule) ==
    {k \in (IF rule.total_fields # <<>> THEN {rule.total_fields[i] : i \in DOMAIN rule.total_fields}
            ELSE DOMAIN values) : k # "dead_time"}

HasExplicitScore(raw) == "points" \in DOMAIN raw \/ points_header \in DOMAIN raw

\* C26: an explicit score, once stored as the total of an entry, remains the
\* total after any recomputation triggered by a later save of the ScoreRule.
C26_ExplicitScoreSurvivesRuleSave ==
    [][\A c \in Checkpoints, g \in Groups, r \in RuleChoices :
          (resp'.op = "save_rule" /\ SaveRule(c, g, r))
             => \A t \in Teams : \A i \in DOMAIN entries[<<t, c>>] :
                   LET e == entries[<<t, c>>][i]
                   IN (HasExplicitScore(e.raw_fields) /\ e.total = ExplicitScore(e.raw_fields))
                         => entries'[<<t, c>>][i].total = ExplicitScore(e.raw_fields)]_vars

\* The cohort teams without a race score under a time_race rule: no start or
\* no end Checkin, or an end before the start.
NonQualifying(checkpoint_id, group_id, rule) ==
    CohortTeams(entries, team_groups, checkpoint_id, group_id)
        \ DOMAIN NormalizerScores(checkins, entries, team_groups, rule, checkpoint_id, group_id)

OwnTotalKept(checkpoint_id, group_id, rule) ==
    \A t \in NonQualifying(checkpoint_id, group_id, rule) :
        \E i \in NewestEntries(entries, t, checkpoint_id) :
            entries'[<<t, checkpoint_id>>][i].total =
                compute_total(entries[<<t, checkpoint_id>>][i].raw_fields, points_header, rule)

\* C27: under a time_race rule a cohort team without a start or an end
\* Checkin, or whose end precedes its start, gets no race score: after any
\* recomputation of the cohort, by a Submit or by a save of the rule, the
\* total of its current entry is the total computed from its own raw fields.
C27_NonQualifyingKeepsOwnTotal ==
    [][/\ \A c \in Checkpoints, g \in Groups, r \in RuleChoices :
             (resp'.op = "save_rule" /\ SaveRule(c, g, r) /\ HasTimeRace(r))
                => OwnTotalKept(c, g, r)
       /\ \A p \in Procs :
             (sub[p].pc = "write" /\ entries' # entries)
                => OwnTotalKept(sub[p].checkpoint_id, sub[p].group_id,
                                get_score_rule(rules, sub[p].checkpoint_id, sub[p].group_id))]_vars

\* C28: the recomputation of a cohort inside a Submit and the one after a
\* save of the rule assign the same totals: when a Submit has committed its
\* cohort totals, saving the unchanged rule again changes no total.
C28_ResaveAfterSubmitChangesNothing ==
    [][\A p \in Procs :
          (sub[p].pc = "write" /\ sub'[p].pc = "idle")
             => \A latest \in LatestByTeam(entries', team_groups,
                                           sub[p].checkpoint_id, sub[p].group_id) :
                   recompute_scores_for_rule(checkins, entries', rules, sub[p].checkpoint_id,
                                             sub[p].group_id, latest) = entries']_vars

\* C29: a Submit that is rejected (invalid team or checkpoint, judge not
\* assigned to the checkpoint, team without an active group) leaves the store
\* as it was: no Checkin, entry, rule or membership is created or changed.
C29_RejectedSubmitChangesNothing ==
    [][(resp'.op = "submit" /\ ~resp'.ok /\ resp' # resp)
          => /\ checkins' = checkins
             /\ entries' = entries
             /\ rules' = rules
             /\ global_rules' = global_rules
             /\ team_groups' = team_groups]_vars

\* The Submit of a judge for team 3, which has no group, was rejected while
\* team 1 has an entry; team 3 has no Checkin.
C29_Witness ==
    /\ resp.op = "submit"
    /\ ~resp.ok
    /\ resp.value.error = "no_active_group"
    /\ resp.value.team_id = 3
    /\ resp.value.checkpoint_id = EndCP
    /\ checkins[<<3, EndCP>>] = <<>>
    /\ entries[<<1, EndCP>>] # <<>>

\* C30: deleting a ScoreRule changes no ScoreEntry: the rule row is gone and
\* every stored total stays as it was computed under the deleted rule.
C30_DeleteRuleKeepsEntries ==
    [][\A c \in Checkpoints, g \in Groups :
          (resp'.op = "delete_rule" /\ resp' # resp
              /\ resp'.value.checkpoint_id = c /\ resp'.value.group_id = g)
             => /\ entries' = entries
                /\ checkins' = checkins
                /\ resp'.ok => (rules[<<c, g>>] # <<>> /\ rules'[<<c, g>>] = <<>>)]_vars

\* The multiplier rule of (finish, group 1) has been deleted; the entry of
\* team 1 still carries 3 * 2, while without a rule its raw fields give 2.
C30_Witness ==
    /\ resp.op = "delete_rule"
    /\ resp.ok
    /\ resp.value.checkpoint_id = EndCP
    /\ rules[<<EndCP, 1>>] = <<>>
    /\ Len(entries[<<1, EndCP>>]) = 1
    /\ entries[<<1, EndCP>>][1].total = Num(6)
    /\ compute_total(entries[<<1, EndCP>>][1].raw_fields, points_header, NoRule) = Num(2)

====
